---------------------------- MODULE Spec2Model ----------------------------
(***************************************************************************)
(* A model of libcontract-sys (src/src/lib.rs): the Rust declaration layer *)
(* over illumos libcontract(3LIB).  The crate holds constants, two         *)
(* enumerations, two opaque handle types and the extern "C" declarations;  *)
(* the behaviour behind each declaration is the native library's.  The     *)
(* model keeps the two apart: what the crate fixes (constant values, enum  *)
(* numbering, argument and return types, handle representation) is         *)
(* translated from lib.rs, and the native side a property needs is an      *)
(* environment written from the interface description.                     *)
(*                                                                         *)
(* Fixed-width integers that only travel (cookies, event masks) are sets   *)
(* of bit positions: a u64 is a subset of 0..63, a c_uint a subset of      *)
(* 0..31, and narrowing to a width keeps the bits below it.                *)
(***************************************************************************)
EXTENDS Integers, Sequences, FiniteSets, TLC

(***************************************************************************)
(* Constants of the crate.                                                 *)
(***************************************************************************)
CTD_COMMON == 0
CTD_FIXED == 1
\* CTD_ALL given the value of the line above it.
CTD_ALL_Repeated == CTD_FIXED
CTD_ALL == 2
CT_EV_NEGEND == 0
CT_PARAM_MAX_SIZE == 8192
CTE_ACK == 1
CTE_INFO == 2
\* CTE_NEG numbered as the next integer instead of the next bit.
CTE_NEG_Sequential == CTE_INFO + 1
CTE_NEG == 4

\* The crate's constants by name, as a caller of the crate reads them.
BindingConst ==
    [ CTD_COMMON |-> CTD_COMMON, CTD_FIXED |-> CTD_FIXED, CTD_ALL |-> CTD_ALL,
      CT_EV_NEGEND |-> CT_EV_NEGEND, CT_PARAM_MAX_SIZE |-> CT_PARAM_MAX_SIZE,
      CTE_ACK |-> CTE_ACK, CTE_INFO |-> CTE_INFO, CTE_NEG |-> CTE_NEG ]

\* The values the native interface assigns to the same names.
NativeConst ==
    [ CTD_COMMON |-> 0, CTD_FIXED |-> 1, CTD_ALL |-> 2,
      CT_EV_NEGEND |-> 0, CT_PARAM_MAX_SIZE |-> 8192,
      CTE_ACK |-> 1, CTE_INFO |-> 2, CTE_NEG |-> 4 ]

(***************************************************************************)
(* Integer widths of the declarations.                                     *)
(***************************************************************************)
U64Bits == 0..63
CUintBits == 0..31

\* A cookie in a narrower argument type: the high word is lost.
CookieArgNarrow(x) == x \cap CUintBits

\* ct_tmpl_set_cookie(fd, cookie: u64): the cookie as the native call gets it.
CookieArg(x) == x \cap U64Bits

\* ct_tmpl_get_cookie(fd, cookiep), a pointer to u64: the cookie as written back.
CookieOut(x) == x \cap U64Bits

\* An event mask in a 16-bit argument type: the high half is lost.
EventsArgNarrow(m) == m \cap (0..15)

\* ct_tmpl_set_critical / ct_tmpl_set_informative(fd, events: c_uint).
EventsArg(m) == m \cap CUintBits

\* ct_tmpl_get_critical / ct_tmpl_get_informative(fd, eventsp), to c_uint.
EventsOut(m) == m \cap CUintBits

(***************************************************************************)
(* State.  Each group belongs to one family of entry points; a step of one *)
(* family leaves the other groups alone.                                   *)
(***************************************************************************)
VARIABLES
    topen,    \* topen[fd]: the descriptor refers to a live template
    tcookie,  \* tcookie[fd]: the template's cookie, kernel side
    tcrit,    \* tcrit[fd]: the template's critical event mask
    tinfo,    \* tinfo[fd]: the template's informative event mask
    tset,     \* tset[fd]: what the caller last set successfully since open
    tlast     \* the last template call: name, fd, status, out-parameter

tmplVars == <<topen, tcookie, tcrit, tinfo, tset, tlast>>

VARIABLES
    hstate,  \* hstate[h]: "unalloc", "live" or "freed", the native memory
    hpay,    \* hpay[h]: what the handle holds (kind, detail level, event flags)
    held,    \* the handle pointers the caller holds
    frees,   \* frees[h]: free calls made on h
    hlast    \* the last handle call and its outcome

hdlVars == <<hstate, hpay, held, frees, hlast>>

VARIABLES
    clast    \* the last entry point called: what the native call returned,
             \* what the caller got, how many native calls were made

callVars == <<clast>>

VARIABLES
    cstate,   \* the contract's state, kernel side
    adopted,  \* a ct_ctl_adopt has succeeded on the contract
    seen,     \* the states the status snapshots have recorded so far
    lobs,     \* the state the latest snapshot recorded
    llast     \* the last lifecycle step

lifeVars == <<cstate, adopted, seen, lobs, llast>>

VARIABLES
    equeue,    \* events pending on the endpoint, oldest first
    enonblock, \* the endpoint descriptor is in non-blocking mode
    epc,       \* where the reader is: "idle" or inside a read call
    elast      \* the last read that returned: call, status, event

evtVars == <<equeue, enonblock, epc, elast>>

VARIABLES
    nlast    \* the last integer taken for an enumeration, and what became of it

enumVars == <<nlast>>

vars == <<tmplVars, hdlVars, callVars, lifeVars, evtVars, enumVars>>

notTmpl == <<hdlVars, callVars, lifeVars, evtVars, enumVars>>
notHdl == <<tmplVars, callVars, lifeVars, evtVars, enumVars>>
notCall == <<tmplVars, hdlVars, lifeVars, evtVars, enumVars>>
notLife == <<tmplVars, hdlVars, callVars, evtVars, enumVars>>
notEvt == <<tmplVars, hdlVars, callVars, lifeVars, enumVars>>
notEnum == <<tmplVars, hdlVars, callVars, lifeVars, evtVars>>

(***************************************************************************)
(* Template descriptors.                                                   *)
(***************************************************************************)
\* Template descriptors the caller may hold.
TmplFds == {3, 4}

\* Cookies a caller passes: zero, the top bit alone, all ones.
CookieInputs == { {}, {63}, U64Bits }

\* Event masks a caller passes: none, a mask with bits in both halves, all ones.
MaskInputs == { {}, {1, 16}, CUintBits }

\* Non-zero status codes of the native library: EBADF for a descriptor that
\* is not open, EINVAL for a call the kernel rejects.
ErrBadFd == {9}
ErrRejected == {22}


NoSet == [cookie |-> <<>>, crit |-> <<>>]

InitTmpl ==
    /\ topen = [fd \in TmplFds |-> FALSE]
    /\ tcookie = [fd \in TmplFds |-> {}]
    /\ tcrit = [fd \in TmplFds |-> {}]
    /\ tinfo = [fd \in TmplFds |-> {}]
    /\ tset = [fd \in TmplFds |-> NoSet]
    /\ tlast = [op |-> "none", fd |-> 0, arg |-> <<>>, ret |-> 0, out |-> <<>>]

\* The caller opens a template: a fresh kernel template behind fd.
TmplOpen(fd) ==
    /\ ~topen[fd]
    /\ topen' = [topen EXCEPT ![fd] = TRUE]
    /\ tcookie' = [tcookie EXCEPT ![fd] = {}]
    /\ tcrit' = [tcrit EXCEPT ![fd] = {}]
    /\ tinfo' = [tinfo EXCEPT ![fd] = {}]
    /\ tset' = [tset EXCEPT ![fd] = NoSet]
    /\ tlast' = [op |-> "open", fd |-> fd, arg |-> <<>>, ret |-> 0, out |-> <<>>]

\* The caller closes the descriptor: the template behind it is gone.
TmplClose(fd) ==
    /\ topen[fd]
    /\ topen' = [topen EXCEPT ![fd] = FALSE]
    /\ tcookie' = [tcookie EXCEPT ![fd] = {}]
    /\ tcrit' = [tcrit EXCEPT ![fd] = {}]
    /\ tinfo' = [tinfo EXCEPT ![fd] = {}]
    /\ tset' = [tset EXCEPT ![fd] = NoSet]
    /\ tlast' = [op |-> "close", fd |-> fd, arg |-> <<>>, ret |-> 0, out |-> <<>>]

\* A template call that fails: the native status reaches the caller, the
\* template and the out-parameter are left alone.
TmplFail(name, fd, arg) ==
    /\ \E e \in (IF topen[fd] THEN ErrRejected ELSE ErrBadFd) :
          tlast' = [op |-> name, fd |-> fd, arg |-> arg, ret |-> e, out |-> <<>>]
    /\ UNCHANGED <<topen, tcookie, tcrit, tinfo, tset>>

ct_tmpl_set_cookie(fd, cookie) ==
    \/ /\ topen[fd]
       /\ tcookie' = [tcookie EXCEPT ![fd] = CookieArg(cookie)]
       /\ tset' = [tset EXCEPT ![fd].cookie = <<cookie>>]
       /\ tlast' = [op |-> "set_cookie", fd |-> fd, arg |-> <<cookie>>,
                    ret |-> 0, out |-> <<>>]
       /\ UNCHANGED <<topen, tcrit, tinfo>>
    \/ TmplFail("set_cookie", fd, <<cookie>>)

ct_tmpl_get_cookie(fd) ==
    \/ /\ topen[fd]
       /\ tlast' = [op |-> "get_cookie", fd |-> fd, arg |-> <<>>, ret |-> 0,
                    out |-> <<CookieOut(tcookie[fd])>>]
       /\ UNCHANGED <<topen, tcookie, tcrit, tinfo, tset>>
    \/ TmplFail("get_cookie", fd, <<>>)

ct_tmpl_set_critical(fd, events) ==
    \/ /\ topen[fd]
       /\ tcrit' = [tcrit EXCEPT ![fd] = EventsArg(events)]
       /\ tset' = [tset EXCEPT ![fd].crit = <<events>>]
       /\ tlast' = [op |-> "set_critical", fd |-> fd, arg |-> <<events>>,
                    ret |-> 0, out |-> <<>>]
       /\ UNCHANGED <<topen, tcookie, tinfo>>
    \/ TmplFail("set_critical", fd, <<events>>)

ct_tmpl_get_critical(fd) ==
    \/ /\ topen[fd]
       /\ tlast' = [op |-> "get_critical", fd |-> fd, arg |-> <<>>, ret |-> 0,
                    out |-> <<EventsOut(tcrit[fd])>>]
       /\ UNCHANGED <<topen, tcookie, tcrit, tinfo, tset>>
    \/ TmplFail("get_critical", fd, <<>>)

ct_tmpl_set_informative(fd, events) ==
    \/ /\ topen[fd]
       /\ tinfo' = [tinfo EXCEPT ![fd] = EventsArg(events)]
       /\ tlast' = [op |-> "set_informative", fd |-> fd, arg |-> <<events>>,
                    ret |-> 0, out |-> <<>>]
       /\ UNCHANGED <<topen, tcookie, tcrit, tset>>
    \/ TmplFail("set_informative", fd, <<events>>)

ct_tmpl_get_informative(fd) ==
    \/ /\ topen[fd]
       /\ tlast' = [op |-> "get_informative", fd |-> fd, arg |-> <<>>, ret |-> 0,
                    out |-> <<EventsOut(tinfo[fd])>>]
       /\ UNCHANGED <<topen, tcookie, tcrit, tinfo, tset>>
    \/ TmplFail("get_informative", fd, <<>>)

\* A step of the template family.
TmplStep(A) == A /\ UNCHANGED notTmpl

NextTmpl ==
    \E fd \in TmplFds :
        \/ TmplStep(TmplOpen(fd))
        \/ TmplStep(TmplClose(fd))
        \/ \E x \in CookieInputs : TmplStep(ct_tmpl_set_cookie(fd, x))
        \/ TmplStep(ct_tmpl_get_cookie(fd))
        \/ \E m \in MaskInputs : TmplStep(ct_tmpl_set_critical(fd, m))
        \/ TmplStep(ct_tmpl_get_critical(fd))
        \/ \E m \in MaskInputs : TmplStep(ct_tmpl_set_informative(fd, m))
        \/ TmplStep(ct_tmpl_get_informative(fd))

(***************************************************************************)
(* Status and event handles.                                               *)
(*                                                                         *)
(* A handle is a raw pointer to ct_stathdl_t or ct_evthdl_t, written       *)
(* through the out-parameter of a read.  The handle types are Copy and     *)
(* have no destructor; ct_status_free and ct_event_free take the pointer   *)
(* by value.  The memory behind a handle is the native library's.          *)
(***************************************************************************)
\* Handles a run allocates at most, and free calls per handle it follows.
MaxHandles == 2
MaxFrees == 2

Handles == 1..MaxHandles

DetailNames == {"CTD_COMMON", "CTD_FIXED", "CTD_ALL"}
FlagNames == {"CTE_ACK", "CTE_INFO", "CTE_NEG"}

\* The contract a status snapshot is read from.
SnapshotCtid == {7}

RECURSIVE BitAnd(_, _)
\* a & b on naturals.
BitAnd(a, b) ==
    IF a = 0 \/ b = 0 THEN 0
    ELSE (IF a % 2 = 1 /\ b % 2 = 1 THEN 1 ELSE 0) + 2 * BitAnd(a \div 2, b \div 2)

RECURSIVE SumBits(_)
\* The sum of the native bit of every flag of S: the flags word of an event.
SumBits(S) ==
    IF S = {} THEN 0
    ELSE LET f == CHOOSE x \in S : TRUE IN NativeConst[f] + SumBits(S \ {f})

\* The detail level the native library reads from the integer it is passed.
NativeLevel(detail) == {n \in DetailNames : NativeConst[n] = detail}

\* The flags a caller finds in a flags word by masking with the crate's bits.
FlagsIn(word) == {f \in FlagNames : BitAnd(word, BindingConst[f]) # 0}

ReadFns == {"ct_status_read", "ct_event_read", "ct_event_read_critical"}
KindOf(fn) == IF fn \in {"ct_status_read", "ct_status_free", "ct_status_get_id"}
              THEN "status" ELSE "event"


NoPay == [kind |-> "none", level |-> "", attrs |-> {}]

InitHdl ==
    /\ hstate = [h \in Handles |-> "unalloc"]
    /\ hpay = [h \in Handles |-> NoPay]
    /\ held = {}
    /\ frees = [h \in Handles |-> 0]
    /\ hlast = [op |-> "none", h |-> 0, req |-> "", ret |-> 0,
                ub |-> "none", out |-> <<>>]

\* An owning wrapper would take the pointer away from the caller on free.
HeldAfterFreeOwned(ptrs, h) == ptrs \ {h}

\* ct_status_free(stathdl) / ct_event_free(evthndl): the pointer is
\* passed by value and the caller's copy stays as it is.
HeldAfterFree(ptrs, h) == ptrs

\* ct_status_read(fd, detail, stathdlp), ct_event_read(fd, evthndlp),
\* ct_event_read_critical(fd, evthandlp): on success a fresh handle is written
\* through the out-parameter; on failure only the status comes back.
HdlRead(fn, req, attrs) ==
    /\ hlast.op # "exit"
    /\ LET level == IF KindOf(fn) = "status" THEN NativeLevel(BindingConst[req]) ELSE {""}
       IN
       \/ /\ level # {}
          /\ \E h \in Handles :
               /\ hstate[h] = "unalloc"
               /\ \A g \in Handles : g < h => hstate[g] # "unalloc"
               /\ hstate' = [hstate EXCEPT ![h] = "live"]
               /\ hpay' = [hpay EXCEPT ![h] =
                             [kind |-> KindOf(fn), level |-> CHOOSE l \in level : TRUE,
                              attrs |-> attrs]]
               /\ held' = held \cup {h}
               /\ hlast' = [op |-> fn, h |-> h, req |-> req, ret |-> 0,
                            ub |-> "none", out |-> <<>>]
          /\ UNCHANGED frees
       \/ /\ \E e \in ErrBadFd \cup ErrRejected :
               hlast' = [op |-> fn, h |-> 0, req |-> req, ret |-> e,
                         ub |-> "none", out |-> <<>>]
          /\ UNCHANGED <<hstate, hpay, held, frees>>

\* ct_status_get_id(stathdl) / ct_event_get_flags(evthndl) on a pointer the
\* caller holds.  On a live handle the field comes back; on a freed one the
\* call reads released memory and any value may come back.
HdlAccessor(fn, h) ==
    /\ hlast.op # "exit"
    /\ h \in held
    /\ hpay[h].kind = KindOf(fn)
    /\ LET field == IF fn = "ct_status_get_id" THEN SnapshotCtid
                    ELSE {SumBits(hpay[h].attrs)}
           any == IF fn = "ct_status_get_id" THEN SnapshotCtid \cup {0}
                  ELSE {0, SumBits(FlagNames)}
       IN
       \/ /\ hstate[h] = "live"
          /\ \E v \in field :
               hlast' = [op |-> fn, h |-> h, req |-> "", ret |-> 0,
                         ub |-> "none", out |-> <<v>>]
       \/ /\ hstate[h] = "freed"
          /\ \E v \in any :
               hlast' = [op |-> fn, h |-> h, req |-> "", ret |-> 0,
                         ub |-> "use_after_free", out |-> <<v>>]
    /\ UNCHANGED <<hstate, hpay, held, frees>>

\* ct_status_free(stathdl) / ct_event_free(evthndl) on a pointer the caller
\* holds: releases a live handle and what it held; on a freed one it is a
\* double free.
HdlFree(fn, h) ==
    /\ hlast.op # "exit"
    /\ h \in held
    /\ hpay[h].kind = KindOf(fn)
    /\ frees[h] < MaxFrees
    /\ hstate' = [hstate EXCEPT ![h] = "freed"]
    /\ frees' = [frees EXCEPT ![h] = @ + 1]
    /\ held' = HeldAfterFree(held, h)
    /\ hlast' = [op |-> fn, h |-> h, req |-> "", ret |-> 0,
                 ub |-> IF hstate[h] = "freed" THEN "double_free" ELSE "none",
                 out |-> <<>>]
    /\ hpay' = [hpay EXCEPT ![h] = [kind |-> @.kind, level |-> "", attrs |-> {}]]

\* The caller is done with the library; nothing releases what it still holds.
HdlExit ==
    /\ hlast.op \notin {"none", "exit"}
    /\ hlast' = [op |-> "exit", h |-> 0, req |-> "", ret |-> 0,
                 ub |-> "none", out |-> <<>>]
    /\ UNCHANGED <<hstate, hpay, held, frees>>

\* A step of the handle family.
HdlStep(A) == A /\ UNCHANGED notHdl

NextHdl ==
    \/ \E req \in DetailNames : HdlStep(HdlRead("ct_status_read", req, {}))
    \/ \E attrs \in SUBSET FlagNames : HdlStep(HdlRead("ct_event_read", "", attrs))
    \/ \E attrs \in SUBSET FlagNames :
          HdlStep(HdlRead("ct_event_read_critical", "", attrs))
    \/ \E h \in Handles : HdlStep(HdlAccessor("ct_status_get_id", h))
    \/ \E h \in Handles : HdlStep(HdlAccessor("ct_event_get_flags", h))
    \/ \E h \in Handles : HdlStep(HdlFree("ct_status_free", h))
    \/ \E h \in Handles : HdlStep(HdlFree("ct_event_free", h))
    \/ HdlStep(HdlExit)

(***************************************************************************)
(* The entry points and what each hands back.                              *)
(*                                                                         *)
(* Every entry point is a bare extern "C" declaration: a call of it is one *)
(* call of the native symbol, and the caller gets the native return value  *)
(* at the declared type.                                                   *)
(***************************************************************************)
\* Entry points declared to return c_int.
CIntFns ==
    { "ct_tmpl_activate", "ct_tmpl_clear", "ct_tmpl_create",
      "ct_tmpl_set_cookie", "ct_tmpl_set_critical", "ct_tmpl_set_informative",
      "ct_tmpl_get_cookie", "ct_tmpl_get_critical", "ct_tmpl_get_informative",
      "ct_ctl_adopt", "ct_ctl_abandon", "ct_ctl_newct", "ct_ctl_ack",
      "ct_ctl_nack", "ct_ctl_qack", "ct_status_read", "ct_status_get_nevents",
      "ct_status_get_ntime", "ct_status_get_qtime", "ct_event_read",
      "ct_event_read_critical", "ct_event_reset", "ct_event_reliable",
      "ct_event_get_nevid", "ct_event_get_newct", "ct_pr_tmpl_set_transfer",
      "ct_pr_tmpl_set_fatal", "ct_pr_tmpl_set_param",
      "ct_pr_tmpl_set_svc_fmri", "ct_pr_tmpl_set_svc_aux",
      "ct_pr_tmpl_get_transfer", "ct_pr_tmpl_get_fatal",
      "ct_pr_tmpl_get_param", "ct_pr_tmpl_get_svc_fmri",
      "ct_pr_tmpl_get_svc_aux", "ct_pr_event_get_pid", "ct_pr_event_get_ppid",
      "ct_pr_event_get_signal", "ct_pr_event_get_sender",
      "ct_pr_event_get_senderct", "ct_pr_event_get_exitstatus",
      "ct_pr_event_get_pcorefile", "ct_pr_event_get_gcorefile",
      "ct_pr_event_get_zcorefile", "ct_pr_status_get_param",
      "ct_pr_status_get_fatal", "ct_pr_status_get_members",
      "ct_pr_status_get_contracts", "ct_pr_status_get_svc_fmri",
      "ct_pr_status_get_svc_aux", "ct_pr_status_get_svc_ctid",
      "ct_pr_status_get_svc_creator", "ct_dev_tmpl_set_aset",
      "ct_dev_tmpl_get_aset", "ct_dev_tmpl_set_minor",
      "ct_dev_tmpl_get_minor", "ct_dev_tmpl_set_noneg",
      "ct_dev_tmpl_clear_noneg", "ct_dev_tmpl_get_noneg",
      "ct_dev_status_get_dev_state", "ct_dev_status_get_aset",
      "ct_dev_status_get_minor", "ct_dev_status_get_noneg" }

\* Of those, the status accessors whose c_int is a field of the snapshot.
CountFns == {"ct_status_get_nevents", "ct_status_get_ntime", "ct_status_get_qtime"}

\* Entry points whose c_int is a status code.
StatusFns == CIntFns \ CountFns

\* Entry points declared with no return value.
VoidFns ==
    { "ct_status_free", "ct_event_free" }

\* Accessors declared to return a field at its own type.
FieldFns ==
    { "ct_status_get_id", "ct_status_get_zoneid", "ct_status_get_type",
      "ct_status_get_state", "ct_status_get_holder", "ct_status_get_nevid",
      "ct_status_get_cookie", "ct_status_get_informative",
      "ct_status_get_critical", "ct_event_get_ctid", "ct_event_get_evid",
      "ct_event_get_flags", "ct_event_get_type" }

EntryPoints == CIntFns \cup VoidFns \cup FieldFns

\* c_int values a native call may return: success, EBADF, EINVAL, -1.
NativeInts == {0, 9, 22, -1}

\* Field values a native accessor may return.
NativeFields == {0, 1}

\* Native calls made per call of an entry point.
NativeCallsPerCall == 1

\* A wrapper that reports every failure as -1.
CIntOutMasked(v) == IF v = 0 THEN 0 ELSE -1

\* The c_int the caller gets for the c_int the native call returned.
CIntOut(v) == v

InitCall ==
    clast = [fn |-> "none", native |-> <<>>, ret |-> <<>>, calls |-> 0]

\* A call of an entry point declared "-> c_int".
CallCInt(fn, v) ==
    /\ fn \in CIntFns
    /\ clast' = [fn |-> fn, native |-> <<v>>, ret |-> <<CIntOut(v)>>,
                 calls |-> NativeCallsPerCall]

\* A call of ct_status_free or ct_event_free: nothing comes back.
CallVoid(fn) ==
    /\ fn \in VoidFns
    /\ clast' = [fn |-> fn, native |-> <<>>, ret |-> <<>>,
                 calls |-> NativeCallsPerCall]

\* A call of an accessor declared to return the field itself.
CallField(fn, v) ==
    /\ fn \in FieldFns
    /\ clast' = [fn |-> fn, native |-> <<v>>, ret |-> <<v>>,
                 calls |-> NativeCallsPerCall]

\* A step of the entry-point family.
CallStep(A) == A /\ UNCHANGED notCall

NextCall ==
    \/ \E fn \in CIntFns, v \in NativeInts : CallStep(CallCInt(fn, v))
    \/ \E fn \in VoidFns : CallStep(CallVoid(fn))
    \/ \E fn \in FieldFns, v \in NativeFields : CallStep(CallField(fn, v))

(***************************************************************************)
(* The enumerations.                                                       *)
(***************************************************************************)
\* ctstate_t with CTS_INHERITED and CTS_ORPHAN in the other order.
ctstate_t_Reordered == <<"CTS_OWNED", "CTS_ORPHAN", "CTS_INHERITED", "CTS_DEAD">>

\* enum ctstate_t, repr(C): the variants in declaration order, numbered from 0.
ctstate_t == <<"CTS_OWNED", "CTS_INHERITED", "CTS_ORPHAN", "CTS_DEAD">>

\* enum ct_typeid_t, repr(C).
ct_typeid_t == <<"CTT_PROCESS", "CTT_DEVICE">>

\* The variant of enum e whose discriminant is n, if there is one.
VariantOf(e, n) == {e[i] : i \in {j \in DOMAIN e : j - 1 = n}}

\* The discriminant of variant v of enum e.
Discriminant(e, v) == (CHOOSE i \in DOMAIN e : e[i] = v) - 1

(***************************************************************************)
(* The life of a contract, as the kernel keeps it.                         *)
(***************************************************************************)
\* The kernel's states and the integer it reports for each.
NativeState == [owned |-> 0, inherited |-> 1, orphan |-> 2, dead |-> 3]

KStates == DOMAIN NativeState

InitLife ==
    /\ cstate = "owned"
    /\ adopted = FALSE
    /\ seen = {}
    /\ lobs = "none"
    /\ llast = [op |-> "none", ret |-> 0]

\* The kernel advances the contract: the holder exits (inherited or orphan),
\* the inheriting contract goes away (orphan), the last member goes (dead).
KernelAdvance(s) ==
    /\ NativeState[s] > NativeState[cstate]
    /\ cstate' = s
    /\ llast' = [op |-> "kernel", ret |-> 0]
    /\ UNCHANGED <<adopted, seen, lobs>>

\* ct_ctl_adopt(fd): the caller takes over an inherited contract and becomes
\* its holder; on any other contract the call fails.
ct_ctl_adopt ==
    \/ /\ cstate = "inherited"
       /\ cstate' = "owned"
       /\ adopted' = TRUE
       /\ llast' = [op |-> "ct_ctl_adopt", ret |-> 0]
       /\ UNCHANGED <<seen, lobs>>
    \/ /\ cstate # "inherited"
       /\ \E e \in ErrRejected : llast' = [op |-> "ct_ctl_adopt", ret |-> e]
       /\ UNCHANGED <<cstate, adopted, seen, lobs>>

\* ct_ctl_abandon(fd): the holder gives the contract up; it is orphaned, or
\* dead if nothing is left in it.
ct_ctl_abandon ==
    \/ /\ cstate = "owned"
       /\ cstate' \in {"orphan", "dead"}
       /\ llast' = [op |-> "ct_ctl_abandon", ret |-> 0]
       /\ UNCHANGED <<adopted, seen, lobs>>
    \/ /\ cstate # "owned"
       /\ \E e \in ErrRejected : llast' = [op |-> "ct_ctl_abandon", ret |-> e]
       /\ UNCHANGED <<cstate, adopted, seen, lobs>>

\* ct_status_read(fd, detail, stathdlp): the snapshot records the kernel's
\* integer for the current state in its ctstate_t field, ctst_state.
StatusSnapshot ==
    /\ \E v \in VariantOf(ctstate_t, NativeState[cstate]) :
         /\ lobs' = v
         /\ seen' = seen \cup {v}
    /\ llast' = [op |-> "ct_status_read", ret |-> 0]
    /\ UNCHANGED <<cstate, adopted>>

\* A step in the life of the contract.
LifeStep(A) == A /\ UNCHANGED notLife

NextLife ==
    \/ \E s \in KStates : LifeStep(KernelAdvance(s))
    \/ LifeStep(ct_ctl_adopt)
    \/ LifeStep(ct_ctl_abandon)
    \/ LifeStep(StatusSnapshot)

(***************************************************************************)
(* The event endpoint.                                                     *)
(***************************************************************************)
\* Events pending on the endpoint at most.
MaxQueue == 2

EventKinds == {"critical", "informative"}

\* Native statuses of a read that returns no event: EAGAIN on a non-blocking
\* endpoint, EINTR when a signal or the close of the descriptor ends the wait.
ErrAgain == {11}
ErrIntr == {4}

\* A critical read that takes whatever event is next.
EligibleAny(fn, q) == DOMAIN q

\* The positions of the queue a read may return: every event for
\* ct_event_read, the critical ones for ct_event_read_critical.
Eligible(fn, q) ==
    {i \in DOMAIN q : fn = "ct_event_read" \/ q[i] = "critical"}

\* The first position a read may return.
FirstEligible(fn, q) == CHOOSE i \in Eligible(fn, q) : \A j \in Eligible(fn, q) : i <= j

InitEvt ==
    /\ equeue = <<>>
    /\ enonblock = FALSE
    /\ epc = "idle"
    /\ elast = [op |-> "none", ret |-> 0, ev |-> "none", skipped |-> 0]

\* The kernel publishes an event of the contract on the endpoint.
KernelPublish(k) ==
    /\ Len(equeue) < MaxQueue
    /\ equeue' = Append(equeue, k)
    /\ UNCHANGED <<enonblock, epc, elast>>

\* The caller switches the descriptor between blocking and non-blocking.
EvtSetNonblock(b) ==
    /\ epc = "idle"
    /\ enonblock # b
    /\ enonblock' = b
    /\ UNCHANGED <<equeue, epc, elast>>

\* The caller enters ct_event_read(fd, evthndlp) or
\* ct_event_read_critical(fd, evthandlp).
EvtCall(fn) ==
    /\ epc = "idle"
    /\ epc' = fn
    /\ UNCHANGED <<equeue, enonblock, elast>>

\* The read returns the first event it may return; the cursor moves past it
\* and past the events skipped on the way.
EvtDeliver ==
    /\ epc # "idle"
    /\ Eligible(epc, equeue) # {}
    /\ LET i == FirstEligible(epc, equeue) IN
         /\ elast' = [op |-> epc, ret |-> 0, ev |-> equeue[i], skipped |-> i - 1]
         /\ equeue' = SubSeq(equeue, i + 1, Len(equeue))
    /\ epc' = "idle"
    /\ UNCHANGED enonblock

\* Nothing the read may return is pending and the endpoint is non-blocking:
\* the read returns at once with a status and no event.
EvtWouldBlock ==
    /\ epc # "idle"
    /\ Eligible(epc, equeue) = {}
    /\ enonblock
    /\ \E e \in ErrAgain : elast' = [op |-> epc, ret |-> e, ev |-> "none", skipped |-> 0]
    /\ epc' = "idle"
    /\ UNCHANGED <<equeue, enonblock>>

\* A blocked read is cancelled from outside: a signal, or the descriptor is
\* closed.
EvtInterrupt ==
    /\ epc # "idle"
    /\ Eligible(epc, equeue) = {}
    /\ ~enonblock
    /\ \E e \in ErrIntr : elast' = [op |-> epc, ret |-> e, ev |-> "none", skipped |-> 0]
    /\ epc' = "idle"
    /\ UNCHANGED <<equeue, enonblock>>

\* A step at the event endpoint.
EvtStep(A) == A /\ UNCHANGED notEvt

NextEvt ==
    \/ \E k \in EventKinds : EvtStep(KernelPublish(k))
    \/ \E b \in BOOLEAN : EvtStep(EvtSetNonblock(b))
    \/ EvtStep(EvtCall("ct_event_read"))
    \/ EvtStep(EvtCall("ct_event_read_critical"))
    \/ EvtStep(EvtDeliver)
    \/ EvtStep(EvtWouldBlock)
    \/ EvtStep(EvtInterrupt)

(***************************************************************************)
(* Integers taken for an enumeration.                                      *)
(***************************************************************************)
\* Integers the native side may hand over for an enumeration.
RawInputs == -2..8

\* Where the crate takes an integer for ctstate_t or ct_typeid_t without a
\* conversion: the return value of ct_status_get_state and the enum-typed
\* fields of ct_status_t and ct_event_t.
DirectPaths ==
    [ ct_status_get_state |-> ctstate_t, ctst_state |-> ctstate_t,
      ctst_type |-> ct_typeid_t, ctev_cttype |-> ct_typeid_t ]

\* derive(FromPrimitive): from_i64(n) is Some(variant) for a discriminant and
\* None for every other integer.
FromPrimitive(e, n) ==
    IF VariantOf(e, n) # {} THEN VariantOf(e, n) ELSE {"None"}

\* An integer that arrives already typed as the enum: a discriminant is its
\* variant; any other integer is an invalid value of the enum, which is
\* undefined behaviour: the caller may see any variant or none of them.
TypedAsEnum(e, n) ==
    IF VariantOf(e, n) # {} THEN VariantOf(e, n)
    ELSE {e[i] : i \in DOMAIN e} \cup {"invalid"}

InitEnum ==
    nlast = [path |-> "none", enum |-> "none", raw |-> 0, res |-> "none"]

\* The caller converts an integer with from_i64.
ConvertFromPrimitive(name, e, n) ==
    \E r \in FromPrimitive(e, n) :
        nlast' = [path |-> "from_i64", enum |-> name, raw |-> n, res |-> r]

\* The native side hands over n where the crate declares the enum type.
ReceiveTyped(path, n) ==
    \E r \in TypedAsEnum(DirectPaths[path], n) :
        nlast' = [path |-> path,
                  enum |-> IF DirectPaths[path] = ctstate_t
                           THEN "ctstate_t" ELSE "ct_typeid_t",
                  raw |-> n, res |-> r]

\* A step that takes an integer for an enumeration.
EnumStep(A) == A /\ UNCHANGED notEnum

NextEnum ==
    \/ \E n \in RawInputs : EnumStep(ConvertFromPrimitive("ctstate_t", ctstate_t, n))
    \/ \E n \in RawInputs : EnumStep(ConvertFromPrimitive("ct_typeid_t", ct_typeid_t, n))
    \/ \E path \in DOMAIN DirectPaths, n \in RawInputs : EnumStep(ReceiveTyped(path, n))

Init == InitTmpl /\ InitHdl /\ InitCall /\ InitLife /\ InitEvt /\ InitEnum

SpecTmpl == Init /\ [][NextTmpl]_vars

SpecHdl == Init /\ [][NextHdl]_vars

SpecCall == Init /\ [][NextCall]_vars

SpecLife == Init /\ [][NextLife]_vars

SpecEvt == Init /\ [][NextEvt]_vars

SpecEnum == Init /\ [][NextEnum]_vars

\* C3: after a successful ct_tmpl_set_cookie(fd, X), a successful
\* ct_tmpl_get_cookie(fd) with no cookie write on fd in between hands back
\* exactly X, all 64 bits of it.
C3_CookieRoundTrip ==
    (tlast.op = "get_cookie" /\ tlast.ret = 0 /\ tset[tlast.fd].cookie # <<>>)
        => tlast.out = tset[tlast.fd].cookie

\* A cookie with the top bit set has been set and read back.
C3_Witness ==
    /\ tlast.op = "get_cookie" /\ tlast.ret = 0
    /\ tset[tlast.fd].cookie = <<{63}>>
    /\ tlast.out = <<{63}>>

\* C4 as amended: after a successful ct_tmpl_set_critical(fd, mask), a
\* successful ct_tmpl_get_critical(fd) hands back mask unchanged, whatever the
\* informative mask of the template is.
C4_CriticalRoundTrip ==
    (tlast.op = "get_critical" /\ tlast.ret = 0 /\ tset[tlast.fd].crit # <<>>)
        => tlast.out = tset[tlast.fd].crit

\* C4 as stated: ct_tmpl_set_critical(fd, mask) on a live descriptor followed
\* by a ct_tmpl_get_critical(fd) that returns hands back mask, whether or not
\* the set succeeded.
C4_Original ==
    [][ ( /\ tlast.op = "set_critical" /\ topen[tlast.fd]
          /\ tlast'.op = "get_critical" /\ tlast'.fd = tlast.fd /\ tlast'.ret = 0 )
        => tlast'.out = tlast.arg ]_vars

\* A critical mask read back from a template whose informative mask overlaps it.
C4_Witness ==
    /\ tlast.op = "get_critical" /\ tlast.ret = 0
    /\ tset[tlast.fd].crit = <<{1, 16}>>
    /\ tlast.out = <<{1, 16}>>
    /\ tinfo[tlast.fd] = CUintBits

\* C1 as stated: over any sequence of read, accessor and free calls no handle
\* is freed twice, no accessor is applied to a freed handle, and no handle of
\* a successful read is left unfreed when the caller is done.
C1_Original ==
    /\ hlast.ub = "none"
    /\ hlast.op = "exit" => \A h \in Handles : hstate[h] # "live"

\* C1 as amended: a handle is live exactly from the successful read that
\* produced it to the first free of it; the crate leaves the pointer with the
\* caller after the free, and ct_status_free, ct_event_free and an accessor
\* that takes the handle pointer are undefined behaviour (double free, use
\* after free) exactly when applied to a handle already freed.
C1_HandleWindow ==
    /\ \A h \in Handles :
         /\ hstate[h] = "live" <=> (h \in held /\ frees[h] = 0)
         /\ hstate[h] = "freed" <=> frees[h] >= 1
         /\ hstate[h] = "freed" => h \in held
         /\ hstate[h] = "unalloc" <=> h \notin held
    /\ hlast.ub # "none" => hstate[hlast.h] = "freed"
    /\ hlast.ub = "double_free" => frees[hlast.h] >= 2
    /\ (hlast.op \in {"ct_status_free", "ct_event_free"} /\ frees[hlast.h] >= 2)
          => hlast.ub = "double_free"

\* A handle has been read, freed once, and is still in the caller's hands.
C1_Witness ==
    \E h \in Handles :
        /\ hstate[h] = "freed" /\ frees[h] = 1 /\ h \in held
        /\ hlast.op = "ct_status_free" /\ hlast.h = h /\ hlast.ub = "none"

\* C2: every constant of the crate has its native value: CTD_COMMON = 0,
\* CTD_FIXED = 1, CTD_ALL = 2, CT_EV_NEGEND = 0, CT_PARAM_MAX_SIZE = 8192,
\* CTE_ACK = 1, CTE_INFO = 2, CTE_NEG = 4; so a status read asked for a detail
\* level by the crate's name is served at that level.
C2_ConstantsNative ==
    /\ \A n \in DOMAIN NativeConst : BindingConst[n] = NativeConst[n]
    /\ (hlast.op = "ct_status_read" /\ hlast.ret = 0)
          => hpay[hlast.h].level = hlast.req

\* A status read at CTD_ALL has returned a snapshot of detail level CTD_ALL.
C2_Witness ==
    /\ hlast.op = "ct_status_read" /\ hlast.ret = 0 /\ hlast.req = "CTD_ALL"
    /\ hpay[hlast.h].level = "CTD_ALL"

\* C8: CTE_ACK, CTE_INFO and CTE_NEG are three distinct single bits, so each
\* of the 8 subsets of the flags is a value of ct_event_get_flags and masking
\* the value with each bit gives back exactly that subset.
C8_FlagsIndependent ==
    /\ \A f \in FlagNames : BindingConst[f] \in {1, 2, 4, 8, 16}
    /\ \A f, g \in FlagNames :
          f # g => BitAnd(BindingConst[f], BindingConst[g]) = 0
    /\ (hlast.op = "ct_event_get_flags" /\ hlast.ub = "none")
          => FlagsIn(hlast.out[1]) = hpay[hlast.h].attrs

\* The flags of an event carrying all three have been read and taken apart.
C8_Witness ==
    /\ hlast.op = "ct_event_get_flags" /\ hlast.ub = "none"
    /\ hpay[hlast.h].attrs = FlagNames
    /\ FlagsIn(hlast.out[1]) = FlagNames

\* C5 as stated: every entry point returns an integer status code, and that
\* code is the native call's own: one native call, no retry, no masking, no
\* translation.
C5_Original ==
    clast.fn # "none" =>
        /\ clast.fn \in StatusFns
        /\ clast.ret = clast.native /\ Len(clast.ret) = 1
        /\ clast.calls = 1

\* C5 as amended: every entry point declared to return c_int hands the caller
\* the integer of its one native call unchanged (0 is success, anything else
\* the native error: no retry, no masking, no translation); ct_status_free and
\* ct_event_free return nothing, and the field accessors return the field.
C5_StatusPassThrough ==
    /\ clast.fn \in CIntFns =>
          /\ clast.ret = clast.native /\ Len(clast.ret) = 1
          /\ clast.calls = 1
    /\ clast.fn \in VoidFns => clast.ret = <<>> /\ clast.calls = 1
    /\ clast.fn \in FieldFns => clast.fn \notin StatusFns /\ clast.calls = 1

\* A failed native call has reached the caller with its own error code.
C5_Witness ==
    /\ clast.fn = "ct_ctl_adopt" /\ clast.native = <<22>> /\ clast.ret = <<22>>
    /\ clast.calls = 1

\* The place of a reported state in the order OWNED, INHERITED, ORPHAN, DEAD.
Rank(v) == Discriminant(<<"CTS_OWNED", "CTS_INHERITED", "CTS_ORPHAN", "CTS_DEAD">>, v)

ReturnsRightEvent ==
    (epc # "idle" /\ epc' = "idle" /\ elast'.ret = 0) =>
        /\ elast'.op = epc
        /\ epc = "ct_event_read_critical" =>
              /\ elast'.ev = "critical"
              /\ \A i \in 1..elast'.skipped : equeue[i] = "informative"
        /\ epc = "ct_event_read" => elast'.ev = Head(equeue) /\ elast'.skipped = 0

\* C9 as stated: every event ct_event_read_critical returns is critical,
\* ct_event_read returns the next event of either kind, and neither call
\* returns while no event it may return is pending.
C9_Original ==
    [][ /\ ReturnsRightEvent
        /\ (epc # "idle" /\ Eligible(epc, equeue) = {}) => epc' = epc ]_vars

\* C9 as amended: every event ct_event_read_critical returns is critical
\* (informative events are skipped), ct_event_read returns the next event of
\* either kind, and while no event a call may return is pending the call
\* either stays blocked or, on a non-blocking endpoint or when cancelled from
\* outside, returns a non-zero status and no event.
C9_ReadsAndBlocking ==
    [][ /\ ReturnsRightEvent
        /\ (epc # "idle" /\ Eligible(epc, equeue) = {}) =>
              \/ epc' = epc
              \/ /\ epc' = "idle" /\ elast'.ret # 0 /\ elast'.ev = "none"
                 /\ equeue' = equeue
                 /\ enonblock <=> elast'.ret \in ErrAgain ]_vars

\* ct_event_read_critical has returned a critical event past an informative one.
C9_Witness ==
    /\ elast.op = "ct_event_read_critical" /\ elast.ret = 0
    /\ elast.ev = "critical" /\ elast.skipped = 1

\* C10 as stated: an integer taken for ctstate_t or ct_typeid_t becomes the
\* variant it numbers (0..3, 0..1) and every other integer is rejected, the
\* state ct_status_get_state returns included.
C10_Validated ==
    nlast.path # "none" =>
        LET e == IF nlast.enum = "ctstate_t" THEN ctstate_t ELSE ct_typeid_t IN
        nlast.res = IF nlast.raw \in 0..(Len(e) - 1) THEN e[nlast.raw + 1] ELSE "None"

=============================================================================
